---- MODULE Spec2Model ----
(***************************************************************************)
(* httpcontrol.Transport: an http.RoundTripper that registers every        *)
(* request in a deadline priority queue, retries known safe failures,      *)
(* and runs a monitor goroutine that cancels requests whose deadline has   *)
(* passed.  Modelled from httpcontrol.go (the Transport variant).          *)
(***************************************************************************)
EXTENDS Integers, Sequences, FiniteSets, TLC

\* ------------------------------------------------------------------ bounds
MaxTriesBound == 3        \* MaxTries is drawn from 0..MaxTriesBound
MaxRequestTimeout == 1    \* RequestTimeout is drawn from 0..MaxRequestTimeout (clock units)
MaxClock == 1             \* the clock runs from 0 to MaxClock
MaxCloses == 2            \* a response body is closed at most this many times
MaxClockLate == 2         \* where the clock ends when deadlines lie later
MaxHeaderTimeout == 1     \* ResponseHeaderTimeout, when set, is drawn from 1..MaxHeaderTimeout
MaxBackoffTry == 20       \* a backoff function is called with try in 0..MaxBackoffTry

\* The *http.Request values the callers pass to RoundTrip.
Reqs == {"r1", "r2"}

Methods == {"GET", "POST"}

\* ------------------------------------------------------------ error values
\* An error value: nil, or a value with its Error() text, whether it
\* implements net.Error, and what its Temporary() method answers.
NoErr == [nil |-> TRUE, net |-> FALSE, temporary |-> FALSE, msg |-> ""]

Err(net, temporary, msg) ==
    [nil |-> FALSE, net |-> net, temporary |-> temporary, msg |-> msg]

\* A response: nil, or a response with its status code.
NoRes == [nil |-> TRUE, status |-> 0]

Res(status) == [nil |-> FALSE, status |-> status]

knownFailureSuffixes ==
    << "connection refused",
       "connection reset by peer.",
       "connection timed out.",
       "no such host.",
       "remote error: handshake failure",
       "unexpected EOF." >>

\* strings.HasSuffix
HasSuffix(s, suffix) ==
    /\ Len(s) >= Len(suffix)
    /\ SubSeq(s, Len(s) - Len(suffix) + 1, Len(s)) = suffix

\* Faulty variant: the suffixes alone, as in the older Control type.
shouldRetryError_NoTemporary(err) ==
    \E i \in 1..Len(knownFailureSuffixes) : HasSuffix(err.msg, knownFailureSuffixes[i])

\* Faulty variant: a suffix anywhere in the text, not only at its end.
shouldRetryError_Contains(err) ==
    \/ (err.net /\ err.temporary)
    \/ \E i \in 1..Len(knownFailureSuffixes) :
         \E k \in 0..Len(err.msg) :
            HasSuffix(SubSeq(err.msg, 1, k), knownFailureSuffixes[i])

shouldRetryError(err) ==
    \/ (err.net /\ err.temporary)
    \/ \E i \in 1..Len(knownFailureSuffixes) : HasSuffix(err.msg, knownFailureSuffixes[i])

\* The errors and responses the underlying http.Transport produces in the
\* state machine (a small sample of the error space; the classifier itself
\* is exercised on the larger set ClassifyErrs below).
ErrRefused == Err(FALSE, FALSE, "dial tcp 127.0.0.1:80: connection refused")
ErrTemporary == Err(TRUE, TRUE, "i/o timeout")
ErrClosed == Err(TRUE, FALSE, "use of closed network connection")

Outcomes ==
    { [res |-> Res(200), err |-> NoErr],
      [res |-> Res(500), err |-> NoErr],
      [res |-> NoRes, err |-> ErrRefused],
      [res |-> Res(502), err |-> ErrTemporary],
      [res |-> NoRes, err |-> ErrClosed] }

\* What io.ReadCloser.Close of the underlying body returns.
ErrBodyClose == Err(FALSE, FALSE, "close failed")
CloseResults == {NoErr, ErrBodyClose}

\* ------------------------------------------------------------------- state
VARIABLES
    MaxTries,        \* Transport.MaxTries
    RequestTimeout,  \* Transport.RequestTimeout
    ResponseHeaderTimeout,  \* Transport.ResponseHeaderTimeout
    Stats,           \* TRUE iff Transport.Stats is non-nil
    Debug,           \* Transport.Debug
    clock,           \* the wall clock, time.Now()
    mon,             \* where the monitor goroutine is
    now,             \* monitor: the tick time n.UnixNano()
    monItem,         \* monitor: the request of the item PeekAndShift returned
    tickClosed,      \* the requests whose body Close had returned when the current tick started
    drained,         \* with Debug, the requests of the "Request Timeout" lines logged in the current tick
    closer,          \* where the caller of Transport.Close is
    closeMonitor,    \* the channel t.closeMonitor: "nil", "open" or "closed"
    pqMutex,         \* Transport.pqMutex: "free" or its holder
    pq,              \* Transport.pq: the heap array, of requests (Item.Value)
    index,           \* Item.Index of each request's item
    priority,        \* Item.Priority of each request's item: the deadline
    pc,              \* where the caller of RoundTrip(req) / Body.Close is
    method,          \* req.Method
    try,             \* the parameter try of Transport.tries
    last,            \* resp, err of the last t.transport.RoundTrip(req)
    ret,             \* what RoundTrip returned to its caller
    attempts,        \* how many times t.transport.RoundTrip(req) was called
    sent,            \* with a ResponseHeaderTimeout, when the exchange in flight was handed to t.transport
    log,             \* the calls t.Stats.Retry received for req, in order
    severed,         \* CancelRequest hit the exchange in flight
    cancels,         \* how many times CancelRequest(req) was called
    closes,          \* how many times Body.Close has returned
    cerr,            \* bodyCloser.Close: err of b.ReadCloser.Close()
    closeRet,        \* what the last Body.Close returned
    cErr,            \* classifier run: the error handed to shouldRetryError
    cResult,         \* classifier run: "unset", or the answer
    bStrategy,       \* backoff run: the backoff function called
    bTry,            \* backoff run: its argument try
    bWait            \* backoff run: the seconds it slept, -1 before the call

cfgVars == <<MaxTries, RequestTimeout, ResponseHeaderTimeout, Stats, Debug>>
monVars == <<mon, now, monItem, tickClosed, drained, closeMonitor>>
heapVars == <<pq, index, priority>>
tryVars == <<method, try, last, attempts, sent, log>>
closeVars == <<closes, cerr, closeRet>>
clsVars == <<cErr, cResult>>
bkVars == <<bStrategy, bTry, bWait>>

vars == <<cfgVars, clock, monVars, closer, pqMutex, heapVars, pc, tryVars, ret,
          severed, cancels, closeVars, clsVars, bkVars>>

\* ---------------------------------------------- the priority queue (heap)
\* A heap value h: the array h.q of requests and h.idx, each item's Index.
\* Array positions are Go's, from 0: position i is h.q[i + 1].
At(h, i) == h.q[i + 1]

\* Faulty variant: the comparison of a max-heap.
Less_Reversed(h, i, j) == priority[At(h, i)] > priority[At(h, j)]

\* PriorityQueue.Less
Less(h, i, j) == priority[At(h, i)] < priority[At(h, j)]

\* PriorityQueue.Swap: exchanges two items and their Index fields.
Swap(h, i, j) ==
    [q   |-> [h.q EXCEPT ![i + 1] = At(h, j), ![j + 1] = At(h, i)],
     idx |-> [h.idx EXCEPT ![At(h, i)] = j, ![At(h, j)] = i]]

\* Go's (j - 1) / 2 truncates towards zero.
Parent(j) == IF j = 0 THEN 0 ELSE (j - 1) \div 2

RECURSIVE up(_, _)
up(h, j) ==
    LET i == Parent(j)
    IN  IF i = j \/ ~Less(h, j, i) THEN h ELSE up(Swap(h, i, j), i)

\* down returns the heap and the final position (Go returns i > i0).
RECURSIVE down(_, _, _)
down(h, i, n) ==
    LET j1 == 2 * i + 1
        j2 == j1 + 1
        j  == IF j2 < n /\ Less(h, j2, j1) THEN j2 ELSE j1
    IN  IF j1 >= n THEN [h |-> h, i |-> i]
        ELSE IF ~Less(h, j, i) THEN [h |-> h, i |-> i]
        ELSE down(Swap(h, i, j), j, n)

\* PriorityQueue.Push: item.Index = n, appended.  heap.Push then sifts up.
Push(h, x) ==
    LET n == Len(h.q)
    IN  up([q |-> Append(h.q, x), idx |-> [h.idx EXCEPT ![x] = n]], n)

\* PriorityQueue.Pop: the last item leaves with Index = -1.
Pop(h) ==
    LET n == Len(h.q)
    IN  [q |-> SubSeq(h.q, 1, n - 1), idx |-> [h.idx EXCEPT ![h.q[n]] = -1]]

\* heap.Remove(h, i)
Remove(h, i) ==
    LET n == Len(h.q) - 1
    IN  IF n # i
        THEN LET s == Swap(h, i, n)
                 d == down(s, i, n)
             IN  Pop(IF d.i > i THEN d.h ELSE up(d.h, i))
        ELSE Pop(h)

\* Faulty variant: a peek that leaves the root in the queue.
PeekAndShift_PeekOnly(h, max) ==
    IF Len(h.q) = 0 THEN [h |-> h, item |-> "nil"]
    ELSE IF priority[At(h, 0)] > max THEN [h |-> h, item |-> "nil"]
    ELSE [h |-> h, item |-> At(h, 0)]

\* PriorityQueue.PeekAndShift(max): the root if its priority is <= max.
PeekAndShift(h, max) ==
    IF Len(h.q) = 0 THEN [h |-> h, item |-> "nil"]
    ELSE IF priority[At(h, 0)] > max THEN [h |-> h, item |-> "nil"]
    ELSE [h |-> Remove(h, 0), item |-> At(h, 0)]

Heap == [q |-> pq, idx |-> index]

\* ------------------------------------------------------------ initial state
\* &Transport{MaxTries: .., RequestTimeout: .., ResponseHeaderTimeout: ..,
\* Stats: .., Debug: ..}, before Start.
InitWith(tries, sinks, timeouts, headerTimeouts, debugs) ==
    /\ MaxTries \in tries
    /\ RequestTimeout \in timeouts
    /\ ResponseHeaderTimeout \in headerTimeouts
    /\ Stats \in sinks
    /\ Debug \in debugs
    /\ clock = 0
    /\ mon = "none"
    /\ now = 0
    /\ monItem = "nil"
    /\ tickClosed = {}
    /\ drained = <<>>
    /\ closer = "idle"
    /\ closeMonitor = "nil"
    /\ pqMutex = "free"
    /\ pq = <<>>
    /\ index = [r \in Reqs |-> 0]
    /\ priority = [r \in Reqs |-> 0]
    /\ pc = [r \in Reqs |-> "idle"]
    /\ method = [r \in Reqs |-> "GET"]
    /\ try = [r \in Reqs |-> 0]
    /\ last = [r \in Reqs |-> [res |-> NoRes, err |-> NoErr]]
    /\ ret = [r \in Reqs |-> [res |-> NoRes, err |-> NoErr]]
    /\ attempts = [r \in Reqs |-> 0]
    /\ sent = [r \in Reqs |-> 0]
    /\ log = [r \in Reqs |-> <<>>]
    /\ severed = [r \in Reqs |-> FALSE]
    /\ cancels = [r \in Reqs |-> 0]
    /\ closes = [r \in Reqs |-> 0]
    /\ cerr = [r \in Reqs |-> NoErr]
    /\ closeRet = [r \in Reqs |-> NoErr]

\* No backoff function is under test.
NoBackoffRun ==
    /\ bStrategy = "NoWait"
    /\ bTry = 0
    /\ bWait = -1

\* A transport with any RequestTimeout up to MaxRequestTimeout, no
\* ResponseHeaderTimeout and Debug off.
InitBase(tries, sinks) ==
    /\ InitWith(tries, sinks, 0..MaxRequestTimeout, {0}, {FALSE})
    /\ NoBackoffRun

\* ------------------------------------------------------- Transport.Start
\* Start: builds the http.Transport, makes closeMonitor and the queue, and
\* starts the monitor goroutine.
Start ==
    /\ mon = "none"
    /\ mon' = "select"
    /\ closeMonitor' = "open"
    /\ pq' = <<>>
    /\ UNCHANGED <<cfgVars, clock, now, monItem, tickClosed, drained, closer, pqMutex, index,
                   priority, pc, tryVars, ret, severed, cancels, closeVars, clsVars, bkVars>>

\* time passes
Advance ==
    /\ clock < MaxClock
    /\ clock' = clock + 1
    /\ UNCHANGED <<cfgVars, monVars, closer, pqMutex, heapVars, pc, tryVars, ret,
                   severed, cancels, closeVars, clsVars, bkVars>>

\* time passes, in the specifications whose deadlines lie later
AdvanceLate ==
    /\ clock < MaxClockLate
    /\ clock' = clock + 1
    /\ UNCHANGED <<cfgVars, monVars, closer, pqMutex, heapVars, pc, tryVars, ret,
                   severed, cancels, closeVars, clsVars, bkVars>>

\* --------------------------------------------------- Transport.RoundTrip
\* RoundTrip, up to the Lock: deadline and item (Index is Go's zero value).
RoundTrip(r, m) ==
    /\ mon # "none"
    /\ pc[r] = "idle"
    /\ method' = [method EXCEPT ![r] = m]
    /\ priority' = [priority EXCEPT ![r] = clock + RequestTimeout]
    /\ index' = [index EXCEPT ![r] = 0]
    /\ pc' = [pc EXCEPT ![r] = "lock202"]
    /\ UNCHANGED <<cfgVars, clock, monVars, closer, pqMutex, pq, try, last, attempts,
                   sent, log, ret, severed, cancels, closeVars, clsVars, bkVars>>

\* t.pqMutex.Lock() of a caller, at any of its three places.
LockPc(p) ==
    CASE p = "lock202" -> "push203"
      [] p = "lock207" -> "remove208"
      [] p = "lock230" -> "remove231"
      [] OTHER -> p

Lock(r) ==
    /\ pc[r] \in {"lock202", "lock207", "lock230"}
    /\ pqMutex = "free"
    /\ pqMutex' = r
    /\ pc' = [pc EXCEPT ![r] = LockPc(pc[r])]
    /\ UNCHANGED <<cfgVars, clock, monVars, closer, heapVars, tryVars, ret,
                   severed, cancels, closeVars, clsVars, bkVars>>

\* Faulty variant: the Unlock deferred to RoundTrip's return.
PushItem_DeferUnlock(r) ==
    /\ pc[r] = "push203"
    /\ pqMutex = r
    /\ LET h == Push(Heap, r)
       IN  /\ pq' = h.q
           /\ index' = h.idx
    /\ try' = [try EXCEPT ![r] = 0]
    /\ pc' = [pc EXCEPT ![r] = "tries"]
    /\ UNCHANGED <<cfgVars, clock, monVars, closer, pqMutex, priority, method, last,
                   attempts, sent, log, ret, severed, cancels, closeVars, clsVars, bkVars>>

\* heap.Push(&t.pq, item); Unlock; RoundTrip goes on to t.tries(req, 0).
PushItem(r) ==
    /\ pc[r] = "push203"
    /\ pqMutex = r
    /\ LET h == Push(Heap, r)
       IN  /\ pq' = h.q
           /\ index' = h.idx
    /\ pqMutex' = "free"
    /\ try' = [try EXCEPT ![r] = 0]
    /\ pc' = [pc EXCEPT ![r] = "tries"]
    /\ UNCHANGED <<cfgVars, clock, monVars, closer, priority, method, last, attempts,
                   sent, log, ret, severed, cancels, closeVars, clsVars, bkVars>>

\* ------------------------------------------------------- Transport.tries
\* The retry condition of tries, for a request of method m at try t whose
\* exchange returned res, err.
\* Faulty variant: retries whatever the method.
ShouldRetry_AnyMethod(m, t, res, err) ==
    ~err.nil /\ t < MaxTries /\ shouldRetryError(err)

\* Faulty variant: one retry too many.
ShouldRetry_OffByOne(m, t, res, err) ==
    ~err.nil /\ t <= MaxTries /\ m = "GET" /\ shouldRetryError(err)

\* Faulty variant: also retries a 5xx response.
ShouldRetry_On5xx(m, t, res, err) ==
    \/ ~err.nil /\ t < MaxTries /\ m = "GET" /\ shouldRetryError(err)
    \/ ~res.nil /\ res.status >= 500 /\ t < MaxTries /\ m = "GET"

ShouldRetry(m, t, res, err) ==
    ~err.nil /\ t < MaxTries /\ m = "GET" /\ shouldRetryError(err)

\* The call t.Stats.Retry(req, resp, try, err), as the sink receives it.
\* Faulty variant: reports the index of the retry to come.
RetryRecord_NextTry(r, res, t, err) ==
    [call |-> "Retry", req |-> r, res |-> res, try |-> t + 1, err |-> err]

RetryRecord(r, res, t, err) ==
    [call |-> "Retry", req |-> r, res |-> res, try |-> t, err |-> err]

\* What RoundTrip returns when tries returned an error.
\* Faulty variant: hands the failed response back with the error.
ReturnOnError_KeepRes(res, err) == [res |-> res, err |-> err]

ReturnOnError(res, err) == [res |-> NoRes, err |-> err]

\* What RoundTrip returns when tries returned no error (the body wrapped).
ReturnOnSuccess(res) == [res |-> res, err |-> NoErr]

\* The ResponseHeaderTimeout of the http.Transport that Start builds: the
\* literal (lines 138-145) does not set the field, whatever
\* Transport.ResponseHeaderTimeout is, so it is Go's zero value, no limit.
TransportResponseHeaderTimeout == 0

\* t.transport has waited for r's response headers longer than its own
\* ResponseHeaderTimeout allows.
HeaderWaitExpired(r) ==
    /\ TransportResponseHeaderTimeout > 0
    /\ clock > sent[r] + TransportResponseHeaderTimeout

\* tries calls t.transport.RoundTrip(req): the exchange is in flight.
ExchangeStart(r) ==
    /\ pc[r] = "tries"
    /\ pc' = [pc EXCEPT ![r] = "exchange"]
    /\ attempts' = [attempts EXCEPT ![r] = @ + 1]
    /\ sent' = [sent EXCEPT ![r] = IF ResponseHeaderTimeout > 0 THEN clock ELSE 0]
    /\ UNCHANGED <<cfgVars, clock, monVars, closer, pqMutex, heapVars, method, try,
                   last, log, ret, severed, cancels, closeVars, clsVars, bkVars>>

\* t.transport.RoundTrip(req) returns o.res, o.err; tries either notifies
\* Stats and calls itself with try + 1, or returns to RoundTrip, which
\* either goes to remove the item (an error) or wraps the body and returns.
ExchangeDone(r, o) ==
    /\ pc[r] = "exchange"
    /\ severed[r] => o = [res |-> NoRes, err |-> ErrClosed]
    /\ HeaderWaitExpired(r) => ~o.err.nil
    /\ last' = [last EXCEPT ![r] = o]
    /\ severed' = [severed EXCEPT ![r] = FALSE]
    /\ sent' = [sent EXCEPT ![r] = 0]
    /\ IF ShouldRetry(method[r], try[r], o.res, o.err)
       THEN /\ log' = IF Stats
                      THEN [log EXCEPT ![r] = Append(@, RetryRecord(r, o.res, try[r], o.err))]
                      ELSE log
            /\ try' = [try EXCEPT ![r] = @ + 1]
            /\ pc' = [pc EXCEPT ![r] = "tries"]
            /\ ret' = ret
       ELSE /\ log' = log
            /\ try' = try
            /\ IF ~o.err.nil
               THEN /\ pc' = [pc EXCEPT ![r] = "lock207"]
                    /\ ret' = ret
               ELSE /\ pc' = [pc EXCEPT ![r] = "returned"]
                    /\ ret' = [ret EXCEPT ![r] = ReturnOnSuccess(o.res)]
    /\ UNCHANGED <<cfgVars, clock, monVars, closer, pqMutex, heapVars, method,
                   attempts, cancels, closeVars, clsVars, bkVars>>

\* if item.Index != -1 { heap.Remove(&t.pq, item.Index) }, in RoundTrip.
\* Faulty variant: leaves the item in the queue.
RemoveOnError_Skip(h, r) == h

\* Faulty variant: takes out the root, as heap.Pop would, not the item's position.
RemoveOnError_Root(h, r) == IF h.idx[r] # -1 THEN Remove(h, 0) ELSE h

RemoveOnError(h, r) == IF h.idx[r] # -1 THEN Remove(h, h.idx[r]) ELSE h

\* RoundTrip's error path: remove the item, Unlock, return nil, err.
RemoveFailed(r) ==
    /\ pc[r] = "remove208"
    /\ pqMutex = r
    /\ LET h == RemoveOnError(Heap, r)
       IN  /\ pq' = h.q
           /\ index' = h.idx
    /\ pqMutex' = "free"
    /\ ret' = [ret EXCEPT ![r] = ReturnOnError(last[r].res, last[r].err)]
    /\ pc' = [pc EXCEPT ![r] = "failed"]
    /\ UNCHANGED <<cfgVars, clock, monVars, closer, priority, tryVars,
                   severed, cancels, closeVars, clsVars, bkVars>>

\* ----------------------------------------------------- bodyCloser.Close
\* Faulty variant: if err != nil { return err } ahead of the Lock.
BodyClose_ReturnOnError(r, e) ==
    /\ pc[r] \in {"returned", "closed"}
    /\ closes[r] < MaxCloses
    /\ IF e = NoErr
         THEN /\ cerr' = [cerr EXCEPT ![r] = e]
              /\ pc' = [pc EXCEPT ![r] = "lock230"]
              /\ UNCHANGED <<closes, closeRet>>
         ELSE /\ closeRet' = [closeRet EXCEPT ![r] = e]
              /\ closes' = [closes EXCEPT ![r] = @ + 1]
              /\ pc' = [pc EXCEPT ![r] = "closed"]
              /\ UNCHANGED cerr
    /\ UNCHANGED <<cfgVars, clock, monVars, closer, pqMutex, heapVars, tryVars, ret,
                   severed, cancels, clsVars, bkVars>>

\* err := b.ReadCloser.Close(), which returns e.
BodyClose(r, e) ==
    /\ pc[r] \in {"returned", "closed"}
    /\ closes[r] < MaxCloses
    /\ cerr' = [cerr EXCEPT ![r] = e]
    /\ pc' = [pc EXCEPT ![r] = "lock230"]
    /\ UNCHANGED <<cfgVars, clock, monVars, closer, pqMutex, heapVars, tryVars, ret,
                   severed, cancels, closes, closeRet, clsVars, bkVars>>

\* if b.item.Index != -1 { heap.Remove(&b.transport.pq, b.item.Index) }
\* Faulty variant: leaves the item in the queue.
RemoveOnClose_Skip(h, r) == h

\* Faulty variant: removes without testing Index (position 0 for a stale Index).
RemoveOnClose_Always(h, r) ==
    IF Len(h.q) = 0 THEN h
    ELSE Remove(h, IF h.idx[r] # -1 THEN h.idx[r] ELSE 0)

RemoveOnClose(h, r) == IF h.idx[r] # -1 THEN Remove(h, h.idx[r]) ELSE h

\* Close: remove the item, Unlock, return err.
CloseRemove(r) ==
    /\ pc[r] = "remove231"
    /\ pqMutex = r
    /\ LET h == RemoveOnClose(Heap, r)
       IN  /\ pq' = h.q
           /\ index' = h.idx
    /\ pqMutex' = "free"
    /\ closeRet' = [closeRet EXCEPT ![r] = cerr[r]]
    /\ cerr' = [cerr EXCEPT ![r] = NoErr]
    /\ closes' = [closes EXCEPT ![r] = @ + 1]
    /\ pc' = [pc EXCEPT ![r] = "closed"]
    /\ UNCHANGED <<cfgVars, clock, monVars, closer, priority, tryVars, ret,
                   severed, cancels, clsVars, bkVars>>

\* ----------------------------------------------------- Transport.monitor
\* Faulty variant: now := n.Unix(), seconds, which lie below every deadline.
Tick_Seconds ==
    /\ mon = "select"
    /\ now' = -1
    /\ tickClosed' = {r \in Reqs : closes[r] > 0}
    /\ mon' = "lock174"
    /\ UNCHANGED <<cfgVars, clock, monItem, drained, closeMonitor, closer, pqMutex, heapVars,
                   pc, tryVars, ret, severed, cancels, closeVars, clsVars, bkVars>>

\* case n := <-ticker.C: now := n.UnixNano()
Tick ==
    /\ mon = "select"
    /\ now' = clock
    /\ tickClosed' = {r \in Reqs : closes[r] > 0}
    /\ mon' = "lock174"
    /\ UNCHANGED <<cfgVars, clock, monItem, drained, closeMonitor, closer, pqMutex, heapVars,
                   pc, tryVars, ret, severed, cancels, closeVars, clsVars, bkVars>>

\* t.pqMutex.Lock() of the monitor
MonLock ==
    /\ mon = "lock174"
    /\ pqMutex = "free"
    /\ pqMutex' = "monitor"
    /\ mon' = "peek175"
    /\ UNCHANGED <<cfgVars, clock, now, monItem, tickClosed, drained, closeMonitor, closer,
                   heapVars, pc, tryVars, ret, severed, cancels, closeVars, clsVars, bkVars>>

\* item, _ := t.pq.PeekAndShift(now); Unlock; break if item == nil.
MonPeek ==
    /\ mon = "peek175"
    /\ pqMutex = "monitor"
    /\ LET p == PeekAndShift(Heap, now)
       IN  /\ pq' = p.h.q
           /\ index' = p.h.idx
           /\ monItem' = p.item
           /\ mon' = IF p.item = "nil" THEN "select" ELSE "cancel186"
           \* the tick's locals are dead once the drain loop breaks
           /\ now' = IF p.item = "nil" THEN 0 ELSE now
           /\ tickClosed' = IF p.item = "nil" THEN {} ELSE tickClosed
           \* if t.Debug { log.Printf("httpcontrol: Request Timeout: %s", req.URL) }
           /\ drained' = IF p.item = "nil" THEN <<>>
                         ELSE IF Debug THEN Append(drained, p.item) ELSE drained
    /\ pqMutex' = "free"
    /\ UNCHANGED <<cfgVars, clock, closeMonitor, closer, priority,
                   pc, tryVars, ret, severed, cancels, closeVars, clsVars, bkVars>>

\* http.Transport.CancelRequest(req) severs the exchange in flight, if any.
Severs(p) == p = "exchange"

\* t.CancelRequest(req), then the drain loop goes on.
MonCancel ==
    /\ mon = "cancel186"
    /\ cancels' = [cancels EXCEPT ![monItem] = @ + 1]
    /\ severed' = [severed EXCEPT ![monItem] = @ \/ Severs(pc[monItem])]
    /\ monItem' = "nil"
    /\ mon' = "lock174"
    /\ UNCHANGED <<cfgVars, clock, now, tickClosed, drained, closeMonitor, closer, pqMutex,
                   heapVars, pc, tryVars, ret, closeVars, clsVars, bkVars>>

\* ------------------------------------------------------- Transport.Close
\* Close: CloseIdleConnections, then the send on closeMonitor blocks.
CloseBegin ==
    /\ mon # "none"
    /\ closer = "idle"
    /\ closer' = "send155"
    /\ UNCHANGED <<cfgVars, clock, monVars, pqMutex, heapVars, pc, tryVars, ret,
                   severed, cancels, closeVars, clsVars, bkVars>>

\* The send meets the monitor's case <-t.closeMonitor (an unbuffered channel).
CloseSend ==
    /\ closer = "send155"
    /\ mon = "select"
    /\ closer' = "recv156"
    /\ mon' = "stop168"
    /\ UNCHANGED <<cfgVars, clock, now, monItem, tickClosed, drained, closeMonitor, pqMutex,
                   heapVars, pc, tryVars, ret, severed, cancels, closeVars, clsVars, bkVars>>

\* Faulty variant: the monitor returns without close(t.closeMonitor).
MonStop_NoClose ==
    /\ mon = "stop168"
    /\ mon' = "stopped"
    /\ UNCHANGED <<cfgVars, clock, now, monItem, tickClosed, drained, closeMonitor, closer,
                   pqMutex, heapVars, pc, tryVars, ret, severed, cancels, closeVars, clsVars,
                   bkVars>>

\* monitor: ticker.Stop(); close(t.closeMonitor); return
MonStop ==
    /\ mon = "stop168"
    /\ closeMonitor' = "closed"
    /\ mon' = "stopped"
    /\ UNCHANGED <<cfgVars, clock, now, monItem, tickClosed, drained, closer, pqMutex,
                   heapVars, pc, tryVars, ret, severed, cancels, closeVars, clsVars, bkVars>>

\* Faulty variant: Close returns after the send, without the receive.
CloseReturn_NoJoin ==
    /\ closer = "recv156"
    /\ closer' = "done"
    /\ UNCHANGED <<cfgVars, clock, monVars, pqMutex, heapVars, pc, tryVars, ret,
                   severed, cancels, closeVars, clsVars, bkVars>>

\* <-t.closeMonitor returns once the channel is closed; Close returns nil.
CloseReturn ==
    /\ closer = "recv156"
    /\ closeMonitor = "closed"
    /\ closer' = "done"
    /\ UNCHANGED <<cfgVars, clock, monVars, pqMutex, heapVars, pc, tryVars, ret,
                   severed, cancels, closeVars, clsVars, bkVars>>

\* ------------------------------------------------ retry.go: the backoffs
\* math.Exp2
Exp2(x) == 2 ^ x

\* What each backoff function sleeps when called with try, in seconds
\* (time.Sleep(time.Second * time.Duration(..)); NoWait's body is empty).
ExpBackoff(t) == Exp2(2)

LinearBackoff(t) == t

NoWait(t) == 0

BackoffFunctions == {"ExpBackoff", "LinearBackoff", "NoWait"}

\* The call f(t).
Sleeps(f, t) ==
    CASE f = "ExpBackoff" -> ExpBackoff(t)
      [] f = "LinearBackoff" -> LinearBackoff(t)
      [] f = "NoWait" -> NoWait(t)

\* The backoff function bStrategy is called with bTry.
Backoff ==
    /\ bWait = -1
    /\ bWait' = Sleeps(bStrategy, bTry)
    /\ UNCHANGED <<cfgVars, clock, monVars, closer, pqMutex, heapVars, pc, tryVars, ret,
                   severed, cancels, closeVars, clsVars, bStrategy, bTry>>

\* ------------------------------------------------------- specifications
MaxTriesConc == 1    \* MaxTries when two callers run

\* Transport.Close (CloseBegin, CloseSend, MonStop, CloseReturn) only stops
\* the monitor; the specifications leave the transport open, except
\* SpecClose, and a monitor that is never scheduled again behaves, for the
\* callers and the queue, as a stopped one.

\* What the caller of RoundTrip(r) and of the returned body's Close does,
\* with the methods ms, and an underlying transport and body that answer
\* with the outcomes os and the Close results cs.
Caller(r, ms, os, cs) ==
    \/ \E m \in ms : RoundTrip(r, m)
    \/ Lock(r)
    \/ PushItem(r)
    \/ ExchangeStart(r)
    \/ \E o \in os : ExchangeDone(r, o)
    \/ RemoveFailed(r)
    \/ \E e \in cs : BodyClose(r, e)
    \/ CloseRemove(r)

Monitor ==
    \/ Tick
    \/ MonLock
    \/ MonPeek
    \/ MonCancel

\* Two callers, each with its own GET request, against a transport with
\* MaxTries = MaxTriesConc and a Stats sink, whose exchanges answer 200,
\* refuse the connection, or report the connection closed.
ConcOutcomes ==
    { [res |-> Res(200), err |-> NoErr],
      [res |-> NoRes, err |-> ErrRefused],
      [res |-> NoRes, err |-> ErrClosed] }

Init ==
    /\ InitBase({MaxTriesConc}, {TRUE})
    /\ cErr = NoErr
    /\ cResult = "unset"

Next ==
    \/ Start
    \/ Advance
    \/ \E r \in Reqs : Caller(r, {"GET"}, ConcOutcomes, {NoErr})
    \/ Monitor

Spec == Init /\ [][Next]_vars

\* One caller, every method and outcome, and every MaxTries up to MaxTriesBound.
InitRetry ==
    /\ InitBase(0..MaxTriesBound, BOOLEAN)
    /\ cErr = NoErr
    /\ cResult = "unset"

NextRetry ==
    \/ Start
    \/ Advance
    \/ Caller("r1", Methods, Outcomes, CloseResults)
    \/ Monitor

SpecRetry == InitRetry /\ [][NextRetry]_vars

\* The caller of Transport.Close.
Closing ==
    \/ CloseBegin
    \/ CloseSend
    \/ CloseReturn

\* One caller and the monitor, with Transport.Close called at any moment
\* after Start.
InitClose ==
    /\ InitBase({MaxTriesConc}, {TRUE})
    /\ cErr = NoErr
    /\ cResult = "unset"

NextClose ==
    \/ Start
    \/ Advance
    \/ Caller("r1", {"GET"}, ConcOutcomes, {NoErr})
    \/ Monitor
    \/ MonStop
    \/ Closing

SpecClose == InitClose /\ [][NextClose]_vars

\* Two callers against a transport with Debug on, a non-zero RequestTimeout
\* and no retries, over a longer time, so that two deadlines can differ and
\* both pass.
InitOrder ==
    /\ InitWith({0}, {FALSE}, 1..MaxRequestTimeout, {0}, {TRUE})
    /\ NoBackoffRun
    /\ cErr = NoErr
    /\ cResult = "unset"

NextOrder ==
    \/ Start
    \/ AdvanceLate
    \/ \E r \in Reqs : Caller(r, {"GET"}, ConcOutcomes, {NoErr})
    \/ Monitor

SpecOrder == InitOrder /\ [][NextOrder]_vars

\* One caller against a transport with a ResponseHeaderTimeout and a
\* RequestTimeout longer than it, without retries.
InitHeader ==
    /\ InitWith({0}, {FALSE}, (MaxHeaderTimeout + 1)..(MaxClockLate + 1),
                1..MaxHeaderTimeout, {FALSE})
    /\ NoBackoffRun
    /\ cErr = NoErr
    /\ cResult = "unset"

NextHeader ==
    \/ Start
    \/ AdvanceLate
    \/ Caller("r1", {"GET"}, ConcOutcomes, {NoErr})
    \/ Monitor

SpecHeader == InitHeader /\ [][NextHeader]_vars

\* What a caller does once RoundTrip(r) has been called.
Proceeds(r, os, cs) ==
    \/ Lock(r)
    \/ PushItem(r)
    \/ ExchangeStart(r)
    \/ \E o \in os : ExchangeDone(r, o)
    \/ RemoveFailed(r)
    \/ \E e \in cs : BodyClose(r, e)
    \/ CloseRemove(r)

\* Two callers, without retries, and the monitor running for good (Close is
\* never called), with the Go
\* scheduler's fairness: time passes, the monitor goroutine goes on
\* whenever it can (the ticker fires, a free mutex is acquired), and a
\* caller that holds the mutex goes on to release it.  Nothing obliges an
\* exchange to return or a caller to close the body.  RoundTrip is called
\* while the deadline still lies within the clock's range.
InitLive ==
    /\ InitBase({0}, {FALSE})
    /\ cErr = NoErr
    /\ cResult = "unset"

NextLive ==
    \/ Start
    \/ Advance
    \/ \E r \in Reqs :
          \/ clock + RequestTimeout <= MaxClock /\ RoundTrip(r, "GET")
          \/ Proceeds(r, ConcOutcomes, {NoErr})
    \/ Monitor

FairLive ==
    /\ WF_vars(Advance)
    /\ WF_vars(Monitor)
    /\ \A r \in Reqs : WF_vars(PushItem(r) \/ RemoveFailed(r) \/ CloseRemove(r))

SpecLive == InitLive /\ [][NextLive]_vars /\ FairLive

\* The exchanges answer 200 or report the connection closed.
CloseLiveOutcomes == {o \in ConcOutcomes : o.err \in {NoErr, ErrClosed}}

\* Two callers, without retries, the monitor, and one call of
\* Transport.Close at any moment after Start, with the Go scheduler's
\* fairness: the monitor goroutine goes on whenever it can, a caller that
\* holds the mutex goes on to release it, and the goroutine inside Close
\* goes on once its receive can proceed.  The monitor's select has the ticker
\* case ready in every state of the model, and Go picks among the ready
\* cases of a select at random: the send of Close, ready each time the
\* monitor comes back to the select, is not passed over for ever.
\* RoundTrip is called while the deadline still lies within the clock's
\* range.
InitCloseLive ==
    /\ InitBase({0}, {FALSE})
    /\ cErr = NoErr
    /\ cResult = "unset"

NextCloseLive ==
    \/ Start
    \/ Advance
    \/ \E r \in Reqs :
          \/ clock + RequestTimeout <= MaxClock /\ RoundTrip(r, "GET")
          \/ Proceeds(r, CloseLiveOutcomes, {NoErr})
    \/ Monitor
    \/ MonStop
    \/ Closing

FairCloseLive ==
    /\ WF_vars(Monitor)
    /\ WF_vars(MonStop)
    /\ SF_vars(CloseSend)
    /\ WF_vars(CloseReturn)
    /\ \A r \in Reqs : WF_vars(PushItem(r) \/ RemoveFailed(r) \/ CloseRemove(r))

SpecCloseLive == InitCloseLive /\ [][NextCloseLive]_vars /\ FairCloseLive

\* A backoff function alone, called once with some try.
InitBackoff ==
    /\ InitWith({0}, {FALSE}, {0}, {0}, {FALSE})
    /\ cErr = NoErr
    /\ cResult = "unset"
    /\ bStrategy \in BackoffFunctions
    /\ bTry \in 0..MaxBackoffTry
    /\ bWait = -1

NextBackoff == Backoff

SpecBackoff == InitBackoff /\ [][NextBackoff]_vars

\* The classifier alone: shouldRetryError applied to one error.
ClassifyPrefixes == {"", "dial tcp 127.0.0.1:80: ", "x"}

ClassifyTails ==
    { "connection refused", "connection reset by peer.", "connection timed out.",
      "no such host.", "remote error: handshake failure", "unexpected EOF.",
      "connection refused.", "connection reset by peer", "connection timed out",
      "no such host", "remote error: handshake failure.", "unexpected EOF",
      "connection refused again", "use of closed network connection",
      "Connection refused", "" }

\* not a net.Error; a net.Error that is temporary; a net.Error that is not
ClassifyErrs ==
    { Err(k[1], k[2], p \o t) :
        k \in {<<FALSE, FALSE>>, <<TRUE, TRUE>>, <<TRUE, FALSE>>},
        p \in ClassifyPrefixes, t \in ClassifyTails }

InitClassify ==
    /\ InitBase({0}, {FALSE})
    /\ cErr \in ClassifyErrs
    /\ cResult = "unset"

Classify ==
    /\ cResult = "unset"
    /\ cResult' = IF shouldRetryError(cErr) THEN "retry" ELSE "fail"
    /\ UNCHANGED <<cfgVars, clock, monVars, closer, pqMutex, heapVars, pc, tryVars, ret,
                   severed, cancels, closeVars, cErr, bkVars>>

NextClassify == Classify

SpecClassify == InitClassify /\ [][NextClassify]_vars

\* ------------------------------------------------------------ properties
\* s ends with t: some tail of s is t.
EndsWith(s, t) == \E k \in 0..Len(s) : SubSeq(s, k + 1, Len(s)) = t

\* The transient classification as the specification words it.
Transient(err) ==
    \/ err.net /\ err.temporary
    \/ EndsWith(err.msg, "connection refused")
    \/ EndsWith(err.msg, "connection reset by peer.")
    \/ EndsWith(err.msg, "connection timed out.")
    \/ EndsWith(err.msg, "no such host.")
    \/ EndsWith(err.msg, "remote error: handshake failure")
    \/ EndsWith(err.msg, "unexpected EOF.")

\* RoundTrip(r) is on its error path, or has returned the error.
Failing(r) == pc[r] \in {"lock207", "remove208", "failed"}

\* RoundTrip(r) has returned a response.
Succeeded(r) == pc[r] \in {"returned", "lock230", "remove231", "closed"}

\* This step is the return of an underlying exchange of r.
ExchangeReturns(r) == pc[r] = "exchange" /\ pc'[r] # "exchange"

\* C1: one RoundTrip performs at most MaxTries + 1 underlying exchanges, and
\* a GET whose exchanges all fail with a transient error performs exactly
\* MaxTries + 1 before the caller gets the error.
C1_AttemptsBounded ==
    \A r \in Reqs :
        /\ attempts[r] <= MaxTries + 1
        /\ (Failing(r) /\ method[r] = "GET" /\ Transient(last[r].err))
              => attempts[r] = MaxTries + 1

C1_Witness ==
    /\ MaxTries = 3
    /\ pc["r1"] = "failed"
    /\ method["r1"] = "GET"
    /\ last["r1"].err = ErrRefused
    /\ attempts["r1"] = 4

\* C2: after a failed exchange at try i another exchange is issued iff the
\* method is GET, i < MaxTries and the error is transient; otherwise the
\* error surfaces at once, and a non-GET request gets at most one exchange.
C2_RetryIff ==
    [][\A r \in Reqs :
         /\ (ExchangeReturns(r) /\ ~last'[r].err.nil) =>
               /\ (pc'[r] = "tries") <=>
                     (method[r] = "GET" /\ try[r] < MaxTries /\ Transient(last'[r].err))
               /\ pc'[r] = "tries" => try'[r] = try[r] + 1
               /\ pc'[r] # "tries" => pc'[r] = "lock207" /\ try'[r] = try[r]
         /\ pc[r] = "tries" => (pc'[r] \in {"tries", "exchange"})
         /\ method'[r] # "GET" => attempts'[r] <= 1
         /\ (Failing(r)' /\ try'[r] = 0) => attempts'[r] = 1
      ]_vars

C2_Witness ==
    /\ pc["r1"] = "failed"
    /\ method["r1"] = "POST"
    /\ Transient(last["r1"].err)
    /\ MaxTries > 0
    /\ attempts["r1"] = 1

C4_ResponseIsFinal ==
    [][\A r \in Reqs :
         /\ (ExchangeReturns(r) /\ last'[r].err.nil) =>
               /\ pc'[r] = "returned"
               /\ ret'[r] = [res |-> last'[r].res, err |-> NoErr]
               /\ log'[r] = log[r]
         /\ Succeeded(r) =>
               /\ Succeeded(r)'
               /\ attempts'[r] = attempts[r]
               /\ log'[r] = log[r]
               /\ ret'[r] = ret[r]
               /\ \A i \in 1..Len(log[r]) : log[r][i].try < try[r]
      ]_vars

C4_Witness ==
    /\ pc["r1"] = "closed"
    /\ ret["r1"].res = Res(500)
    /\ ret["r1"].err.nil
    /\ attempts["r1"] = 2

\* C5: when RoundTrip returns an error, the response it returns is nil and
\* the error is the one the last underlying exchange returned.
C5_ErrorUnchanged ==
    \A r \in Reqs :
        ((pc[r] = "failed" \/ Succeeded(r)) /\ ~ret[r].err.nil) =>
            /\ pc[r] = "failed"
            /\ ret[r].res.nil
            /\ ret[r].err = last[r].err

C5_Witness ==
    /\ pc["r1"] = "failed"
    /\ ~last["r1"].res.nil
    /\ ret["r1"] = [res |-> NoRes, err |-> ErrTemporary]

\* The queue q holds an entry of request r.
InQueue(q, r) == \E i \in 1..Len(q) : q[i] = r

\* The monitor has taken r's entry out of the queue.
Evicted(r) == monItem = r \/ cancels[r] > 0

\* This step is r's caller passing one of its two removal places.
Removing(r) == pc[r] \in {"remove208", "remove231"} /\ pc'[r] # pc[r]

\* The queue is a min-heap on the deadlines, without duplicates, and each
\* item's Index is its position.
HeapOK ==
    /\ \A i \in 1..Len(pq) :
          /\ index[pq[i]] = i - 1
          /\ priority[pq[Parent(i - 1) + 1]] <= priority[pq[i]]
    /\ \A i, j \in 1..Len(pq) : pq[i] = pq[j] => i = j

\* C6: when RoundTrip returns an error, the queue holds no entry of that
\* request, whatever the monitor and the other caller did meanwhile.
C6_RemovedOnFailure ==
    \A r \in Reqs : pc[r] = "failed" => (~InQueue(pq, r) /\ index[r] = -1)

C6_Witness ==
    /\ pc["r1"] = "failed"
    /\ ~Evicted("r1")
    /\ pq = <<"r2">>

\* C7 as stated: after a successful RoundTrip the entry is in the queue
\* until the body is closed; after Close has returned it is not, and no
\* tick that starts afterwards cancels the request.  (Stated for a non-zero
\* RequestTimeout, the case the timeout is documented for.)
C7_StaysUntilClose ==
    RequestTimeout > 0 =>
        /\ \A r \in Reqs :
              /\ pc[r] = "returned" /\ closes[r] = 0 => InQueue(pq, r)
              /\ closes[r] > 0 => ~InQueue(pq, r)
        /\ mon = "cancel186" => monItem \notin tickClosed

\* C7 as amended: after a successful RoundTrip the entry is in the queue
\* until the body is closed or the monitor evicts it; after Close has
\* returned it is not, and no tick that starts afterwards cancels the request.
C7_StaysUntilCloseOrEviction ==
    /\ \A r \in Reqs :
          /\ (pc[r] = "returned" /\ closes[r] = 0 /\ ~Evicted(r)) => InQueue(pq, r)
          /\ closes[r] > 0 => ~InQueue(pq, r)
    /\ mon = "cancel186" => monItem \notin tickClosed

C7_Witness ==
    /\ RequestTimeout > 0
    /\ closes["r1"] > 0
    /\ "r1" \in tickClosed
    /\ ~Evicted("r1")
    /\ mon = "cancel186"

\* C8: removing an entry that is already out of the queue changes nothing;
\* a removal takes out the caller's own entry only and leaves the others and
\* their deadlines as they were; an entry leaves the queue only by its own
\* caller or by the monitor when its deadline is <= now, comes in only by
\* Push, and a Push loses nothing; the heap stays well formed.
C8_IdempotentRemoval ==
    [][\A r \in Reqs :
         /\ (Removing(r) /\ index[r] = -1) => (pq' = pq /\ index' = index)
         /\ Removing(r) =>
               /\ ~InQueue(pq', r)
               /\ index'[r] = -1
               /\ \A s \in Reqs \ {r} :
                     /\ InQueue(pq, s) <=> InQueue(pq', s)
                     /\ priority'[s] = priority[s]
         /\ (InQueue(pq, r) /\ ~InQueue(pq', r)) =>
               \/ Removing(r)
               \/ mon = "peek175" /\ priority[r] <= now /\ monItem' = r
         /\ (~InQueue(pq, r) /\ InQueue(pq', r)) => pc[r] = "push203"
         /\ (pc[r] = "push203" /\ pc'[r] # "push203") =>
               /\ InQueue(pq', r)
               /\ \A s \in Reqs \ {r} : InQueue(pq, s) <=> InQueue(pq', s)
         /\ HeapOK'
      ]_vars

C8_Witness ==
    /\ closes["r1"] = 2
    /\ Evicted("r1")
    /\ pq = <<"r2">>
    /\ index["r2"] = 0

\* The calls the sink received for r that are not retry notifications.
TerminalRecords(r) == {i \in 1..Len(log[r]) : log[r][i].call # "Retry"}

\* C9: with a sink, a RoundTrip that has ended (an error returned, or the
\* body closed) has given the sink exactly one terminal record, after every
\* retry notification.
C9_OneTerminalRecord ==
    \A r \in Reqs :
        (Stats /\ (pc[r] = "failed" \/ closes[r] > 0)) =>
            /\ Cardinality(TerminalRecords(r)) = 1
            /\ Len(log[r]) \in TerminalRecords(r)

Registered(r) == pc[r] \notin {"idle", "lock202", "push203"}

\* The logical exchange of r has reached a terminal outcome: RoundTrip
\* returned an error, or the body has been closed.
Terminal(r) == pc[r] = "failed" \/ closes[r] > 0

\* How many entries of r the queue q holds.
Entries(q, r) == Cardinality({i \in 1..Len(q) : q[i] = r})

\* C11: the queue holds at most one entry per logical exchange, and exactly
\* one for each exchange that has registered and has neither reached a
\* terminal outcome nor been evicted by the monitor; so with every exchange
\* registered and none terminal or evicted, the queue's size is their
\* number, whatever the number of retries.
C11_OneEntryPerExchange ==
    /\ \A r \in Reqs :
          /\ Entries(pq, r) <= 1
          /\ (Registered(r) /\ ~Terminal(r) /\ ~Evicted(r)) => Entries(pq, r) = 1
    /\ (\A r \in Reqs : Registered(r) /\ ~Terminal(r) /\ ~Evicted(r)) =>
          Len(pq) = Cardinality(Reqs)

C11_Witness ==
    /\ pc["r1"] = "exchange"
    /\ attempts["r1"] = 2
    /\ pc["r2"] = "exchange"
    /\ \A r \in Reqs : ~Evicted(r) /\ priority[r] > clock
    /\ Len(pq) = 2

\* C12: when Close returns the monitor has stopped (it returned after
\* closing closeMonitor), whatever it and the callers were doing when Close
\* was called; from then on nothing is drained or cancelled, so an entry
\* leaves the queue only by its caller; the monitor started by Start is the
\* only one, and it is not started again.
C12_CloseJoinsMonitor ==
    [][/\ closer' = "done" => (mon' = "stopped" /\ closeMonitor' = "closed")
       /\ closer = "done" =>
             /\ cancels' = cancels
             /\ <<mon, now, monItem>>' = <<mon, now, monItem>>
             /\ \A r \in Reqs : (InQueue(pq, r) /\ ~InQueue(pq', r)) => Removing(r)
       /\ mon = "stopped" => mon' = "stopped"
       /\ mon # "none" => mon' # "none"
       /\ (closer = "send155" /\ closer' # "send155") => (mon = "select" /\ mon' = "stop168")
      ]_vars

C12_Witness ==
    /\ closer = "done"
    /\ mon = "stopped"
    /\ pc["r1"] = "exchange"
    /\ InQueue(pq, "r1")
    /\ priority["r1"] < clock
    /\ cancels["r1"] = 0

\* The drain of the current tick has evicted r.
Drained(r) == \E i \in 1..Len(drained) : drained[i] = r

\* What each tick keeps: nothing with a deadline after now is evicted; the
\* request just evicted is cancelled next, once; a request is cancelled at
\* most once, and only after its entry has left the queue.
TickEvictsExpired ==
    /\ \A i \in 1..Len(drained) : priority[drained[i]] <= now
    /\ \A i, j \in 1..Len(drained) : drained[i] = drained[j] => i = j
    /\ \A r \in Reqs :
          /\ cancels[r] <= 1
          /\ cancels[r] = 1 => (~InQueue(pq, r) /\ monItem # r)
          /\ Drained(r) => cancels[r] = (IF monItem = r THEN 0 ELSE 1)
    /\ mon = "cancel186" <=> monItem # "nil"
    /\ mon = "cancel186" =>
          (Len(drained) > 0 /\ monItem = drained[Len(drained)] /\ ~InQueue(pq, monItem))

\* C13 as stated: each tick removes the entries with a deadline <= now and
\* cancels each once, touches none with a later deadline, and evicts in
\* non-decreasing deadline order.
C13_EvictsInDeadlineOrder ==
    /\ TickEvictsExpired
    /\ \A i, j \in 1..Len(drained) :
          i < j => priority[drained[i]] <= priority[drained[j]]

\* C13 as amended: each eviction takes an entry of the least deadline in
\* the queue at that moment, provided it is <= now; when the drain ends no
\* entry with a deadline <= now is left; each evicted request is cancelled
\* exactly once, and none with a later deadline is evicted or cancelled.
C13_EvictsLeastExpired ==
    [][/\ TickEvictsExpired'
       /\ (mon = "peek175" /\ mon' = "cancel186") =>
             /\ monItem' # "nil"
             /\ InQueue(pq, monItem')
             /\ priority[monItem'] <= now
             /\ \A s \in Reqs : InQueue(pq, s) => priority[monItem'] <= priority[s]
             /\ \A s \in Reqs \ {monItem'} : InQueue(pq, s) <=> InQueue(pq', s)
       /\ (mon = "peek175" /\ mon' # "peek175" /\ mon' # "cancel186") =>
             /\ mon' = "select"
             /\ pq' = pq
             /\ \A s \in Reqs : InQueue(pq, s) => priority[s] > now
       /\ (cancels' # cancels) =>
             /\ mon = "cancel186"
             /\ cancels' = [cancels EXCEPT ![monItem] = @ + 1]
       /\ mon = "cancel186" => (mon' = "cancel186" \/ cancels'[monItem] = cancels[monItem] + 1)
      ]_vars

C13_Witness ==
    /\ mon = "cancel186"
    /\ drained = <<"r1", "r2">>
    /\ priority["r1"] < priority["r2"]
    /\ cancels["r1"] = 1
    /\ pq = <<>>

\* The exchange of r in flight is covered by the deadline: its entry is
\* still in the queue, for a later tick to evict, or the monitor has taken
\* the entry and is about to cancel, or the cancellation has hit the exchange.
Covered(r) == InQueue(pq, r) \/ monItem = r \/ severed[r]

\* C14: with a RequestTimeout, the deadline of the logical exchange covers
\* its retries too: no retry is in flight with the entry gone and no
\* cancellation issued for it.  (The claim says so of the first exchange as
\* well; the retry is the case it names.)
C14_DeadlineCoversRetries ==
    RequestTimeout > 0 =>
        \A r \in Reqs : (pc[r] = "exchange" /\ attempts[r] > 1) => Covered(r)

\* C15: with RequestTimeout = 0 there is no total-request deadline: the
\* monitor evicts no entry and cancels no request, so no exchange is severed.
C15_ZeroTimeoutNeverCancels ==
    RequestTimeout = 0 =>
        /\ monItem = "nil"
        /\ \A r \in Reqs : cancels[r] = 0 /\ ~severed[r]

\* C16: with a ResponseHeaderTimeout d, an exchange whose response headers
\* have not come a whole time unit (at least one tick) after d has elapsed
\* has been cancelled.  (Stated while the total-request deadline has not
\* passed, so that d is the only cause to cancel.)
C16_HeaderTimeoutCancels ==
    \A r \in Reqs :
        (/\ ResponseHeaderTimeout > 0
         /\ pc[r] = "exchange"
         /\ clock > sent[r] + ResponseHeaderTimeout
         /\ priority[r] > clock) => severed[r]

\* r's item has been pushed: it is in the queue, or it has been taken out
\* (Index is -1 only after a removal; it is 0 in a new item).
Inserted(r) == InQueue(pq, r) \/ index[r] = -1

\* C17: an underlying exchange of r has started only if r's entry had been
\* inserted; and when the monitor calls CancelRequest for a request, or has
\* called it, the eviction of its entry is complete.
C17_InsertFirstEvictFirst ==
    /\ \A r \in Reqs :
          /\ (attempts[r] > 0 \/ pc[r] \in {"tries", "exchange"}) => Inserted(r)
          /\ cancels[r] > 0 => (~InQueue(pq, r) /\ index[r] = -1)
    /\ mon = "cancel186" =>
          (monItem # "nil" /\ ~InQueue(pq, monItem) /\ index[monItem] = -1
             /\ pqMutex # "monitor")

C17_Witness ==
    /\ mon = "cancel186"
    /\ monItem = "r1"
    /\ pc["r1"] = "exchange"
    /\ attempts["r1"] = 1
    /\ pc["r2"] = "exchange"
    /\ pq = <<"r2">>

\* Who holds pqMutex: a caller exactly between its Lock and its Unlock
\* around the push or a removal, the monitor exactly around PeekAndShift.
LockHeldForMutation ==
    /\ \A r \in Reqs : pqMutex = r <=> pc[r] \in {"push203", "remove208", "remove231"}
    /\ pqMutex = "monitor" <=> mon = "peek175"
    /\ pqMutex \in Reqs \cup {"monitor", "free"}

\* C18: the lock is held only around one mutation of the queue, and every
\* mutation happens under it, by the holder, who then releases it; no caller
\* holds it when an exchange starts or returns, when the sink is called or
\* when the underlying body is closed, nor the monitor when it cancels.
C18_LockOnlyAroundMutation ==
    [][/\ LockHeldForMutation'
       /\ pqMutex # "free" => pqMutex' \in {pqMutex, "free"}
       /\ (pq' # pq \/ \E r \in Reqs : InQueue(pq, r) /\ index'[r] # index[r]) =>
             /\ pqMutex # "free"
             /\ pqMutex' = "free"
             /\ pqMutex = "monitor" => mon' # mon
             /\ \A r \in Reqs : pqMutex = r => pc'[r] # pc[r]
       /\ \A r \in Reqs :
             /\ (attempts'[r] # attempts[r] \/ ExchangeReturns(r)) => pqMutex # r /\ pqMutex' # r
             /\ log'[r] # log[r] => pqMutex # r /\ pqMutex' # r
             /\ (pc[r] \in {"returned", "closed"} /\ pc'[r] = "lock230") =>
                   pqMutex # r /\ pqMutex' # r
       /\ cancels' # cancels => pqMutex # "monitor" /\ pqMutex' # "monitor"
      ]_vars

C18_Witness ==
    /\ pqMutex = "r1"
    /\ pc["r1"] = "remove208"
    /\ Len(log["r1"]) = 1
    /\ pc["r2"] = "lock202"
    /\ mon = "lock174"
    /\ pq = <<"r1">>

\* This step takes r's entry out of the queue.
Leaves(r) == InQueue(pq, r) /\ ~InQueue(pq', r)

\* The three ways out, as steps.
EvictedNow(r) == mon = "peek175" /\ monItem' = r
RemovedOnFailure(r) == pc[r] = "remove208" /\ pc'[r] = "failed"
RemovedOnClose(r) == pc[r] = "remove231" /\ pc'[r] = "closed"

\* C19: with the monitor running, every entry RoundTrip inserts is in the
\* end out of the queue, whether or not the exchange returns or the body is
\* closed; it leaves by exactly one of the monitor's eviction, RoundTrip's
\* error path and the body's Close, and once out it never comes back, so
\* that no second path removes it.
C19_RemovedExactlyOnce ==
    /\ \A r \in Reqs : InQueue(pq, r) ~> ~InQueue(pq, r)
    /\ [][\A r \in Reqs :
             /\ Leaves(r) =>
                   /\ index'[r] = -1
                   /\ (EvictedNow(r) /\ ~RemovedOnFailure(r) /\ ~RemovedOnClose(r))
                         \/ (~EvictedNow(r) /\ RemovedOnFailure(r) /\ ~RemovedOnClose(r))
                         \/ (~EvictedNow(r) /\ ~RemovedOnFailure(r) /\ RemovedOnClose(r))
             /\ index[r] = -1 => (index'[r] = -1 /\ ~InQueue(pq', r))
          ]_vars

C19_Witness ==
    /\ pc["r1"] = "returned"
    /\ closes["r1"] = 0
    /\ cancels["r1"] = 1
    /\ index["r1"] = -1
    /\ pc["r2"] = "exchange"
    /\ cancels["r2"] = 1
    /\ pq = <<>>

\* C20: NoWait waits 0 whatever the attempt index, LinearBackoff waits the
\* attempt index in seconds, and ExpBackoff's wait grows with the attempt
\* index: for the next index it is longer.
C20_BackoffFromAttemptIndex ==
    bWait # -1 =>
        /\ bStrategy = "NoWait" => bWait = 0
        /\ bStrategy = "LinearBackoff" => bWait = bTry
        /\ bStrategy = "ExpBackoff" => bWait < ExpBackoff(bTry + 1)

\* This step is the monitor's call CancelRequest(r).
CancelCalled(r) == cancels'[r] # cancels[r]

\* This step is the monitor's PeekAndShift returning r's item.
Evicts(r) == mon = "peek175" /\ mon' = "cancel186" /\ monItem' = r

\* C21 as stated: CancelRequest(r) is never called once RoundTrip(r) has
\* returned an error or the body of r's response has been closed.
C21_NoCancelAfterTerminal ==
    [][\A r \in Reqs : CancelCalled(r) => ~Terminal(r)]_vars

\* C21 as amended: the monitor never evicts the entry of a request whose
\* logical exchange has reached its terminal outcome, and it calls
\* CancelRequest only for the request it has just evicted, once; so a call
\* that follows the terminal outcome belongs to an eviction that preceded it.
C21_NoEvictionAfterTerminal ==
    [][\A r \in Reqs :
         /\ Evicts(r) => (InQueue(pq, r) /\ ~Terminal(r))
         /\ Terminal(r) => ~InQueue(pq, r)
         /\ (mon # "cancel186" /\ mon' = "cancel186" /\ monItem' = r) => Evicts(r)
         /\ (mon = "cancel186" /\ monItem = r) => monItem' \in {r, "nil"}
         /\ CancelCalled(r) =>
               /\ mon = "cancel186"
               /\ monItem = r
               /\ cancels'[r] = cancels[r] + 1
               /\ monItem' = "nil"
      ]_vars

C21_Witness ==
    /\ mon = "cancel186"
    /\ monItem = "r1"
    /\ pc["r1"] = "failed"
    /\ ret["r1"].err = ErrRefused
    /\ cancels["r1"] = 0

\* This step is the return of the wrapper's Close for r.
CloseReturns(r) == closes'[r] = closes[r] + 1

\* C22: whatever the underlying body's Close returned, error or nil, the
\* wrapper's Close leaves no entry of the request in the queue when it
\* returns, and it returns exactly that result.
C22_CloseRemovesAndForwardsErr ==
    [][\A r \in Reqs :
         /\ CloseReturns(r) =>
               /\ RemovedOnClose(r)
               /\ ~InQueue(pq', r)
               /\ index'[r] = -1
               /\ closeRet'[r] = cerr[r]
         /\ (pc[r] \in {"returned", "closed"} /\ pc'[r] = "lock230") =>
               /\ cerr'[r] \in CloseResults
               /\ closeRet'[r] = closeRet[r]
         /\ (pc[r] \in {"lock230", "remove231"} /\ ~CloseReturns(r)) =>
               cerr'[r] = cerr[r]
      ]_vars

C22_Witness ==
    /\ pc["r1"] = "closed"
    /\ closes["r1"] = 1
    /\ closeRet["r1"] = ErrBodyClose
    /\ cancels["r1"] = 0
    /\ monItem # "r1"
    /\ RequestTimeout > 0
    /\ ~InQueue(pq, "r1")

\* C23: a call of Close that has got past CloseIdleConnections returns, in
\* whatever state the callers, the queue and the monitor are when it is made.
C23_CloseTerminates == (closer = "send155") ~> (closer = "done")

\* Close has returned with r1's exchange still in flight and its expired
\* entry still in the queue, and r2's entry evicted by the drain that the
\* stop signal followed.
C23_Witness ==
    /\ closer = "done"
    /\ mon = "stopped"
    /\ pc["r1"] = "exchange"
    /\ InQueue(pq, "r1")
    /\ priority["r1"] <= clock
    /\ cancels["r2"] = 1

====
